---- MODULE Spec2Model ----
(***************************************************************************)
(* TextMesher (applications/TextMesher/text_mesher.cpp): text -> glyph     *)
(* contours -> extruded triangle mesh.                                     *)
(*                                                                         *)
(* Units.  The pen (x, y) is kept in whole units, as the code keeps it.    *)
(* Glyph data of the font library (outline points, advance, kerning,       *)
(* lsb/rsb deltas) is in 26.6 units.  An output contour point              *)
(* d/SCALE_TO_F26DOT6 + x is stored multiplied by SCALE_TO_F26DOT6, that   *)
(* is as d + SCALE_TO_F26DOT6*x, so that it stays an integer; mesh         *)
(* coordinates use the same scale.                                         *)
(***************************************************************************)
EXTENDS Integers, Sequences, FiniteSets, TLC

VARIABLES font_library_, font_face_, ready_,
          prev_char_index_, cur_char_index_, prev_rsb_delta_,
          face_file, ft, alive, n_set_font, phase, last

vars == <<font_library_, font_face_, ready_,
          prev_char_index_, cur_char_index_, prev_rsb_delta_,
          face_file, ft, alive, n_set_font, phase, last>>

(* ---------------------------- bounds ---------------------------------- *)
MaxLen == 2
MaxSetFont == 2

(* ------------------------- program constants -------------------------- *)
SCALE_TO_F26DOT6 == 64
NULL == 0

(* C++ integer division truncates toward zero (b > 0). *)
TruncDiv(a, b) == IF a >= 0 THEN a \div b ELSE -((-a) \div b)

(* ------------------- the font library (collaborator) ------------------ *)
Chars == {"a", "b", "c", "d", "e"}
FontFiles == {"plain", "kerned"}
Outcomes == {"ok", "fail_init", "fail_face", "fail_size"}

Tri(cw, p1, p2, p3) == [clockwise |-> cw, points |-> <<p1, p2, p3>>]

OkGlyph(idx, lsb, rsb, adv, cs) ==
    [index |-> idx, load_ok |-> TRUE, get_ok |-> TRUE, outline |-> TRUE,
     lsb_delta |-> lsb, rsb_delta |-> rsb, advance |-> adv, contours |-> cs]

BadGlyph(idx, l, g, o) ==
    [index |-> idx, load_ok |-> l, get_ok |-> g, outline |-> o,
     lsb_delta |-> 0, rsb_delta |-> 0, advance |-> 64, contours |-> <<>>]

(* What FT_Get_Char_Index, FT_Load_Glyph, FT_Get_Glyph and the Vectoriser  *)
(* give for a character of the face opened from file f.  A face that was   *)
(* never opened loads nothing.                                             *)
Glyph(f, ch) ==
    IF f = "plain" THEN
        CASE ch = "a" -> OkGlyph(1, 0, 32, 64,
                 << Tri(TRUE,  <<0, 0>>,   <<0, 256>>, <<256, 0>>),
                    Tri(FALSE, <<32, 32>>, <<128, 32>>, <<32, 128>>) >>)
          [] ch = "b" -> OkGlyph(2, 1, -32, 130,
                 << Tri(FALSE, <<0, 0>>, <<64, 0>>, <<0, 64>>) >>)
          [] ch = "c" -> OkGlyph(3, -1, 0, 10,
                 << Tri(TRUE,  <<0, 0>>,   <<0, 64>>,  <<64, 0>>),
                    Tri(FALSE, <<128, 0>>, <<192, 0>>, <<128, 64>>) >>)
          [] ch = "d" -> BadGlyph(4, FALSE, TRUE, TRUE)
          [] OTHER    -> BadGlyph(5, TRUE, TRUE, FALSE)
    ELSE IF f = "kerned" THEN
        CASE ch = "a" -> OkGlyph(1, 0, 32, 64,
                 << Tri(TRUE,  <<0, 0>>,    <<0, 64>>,    <<64, 0>>),
                    Tri(TRUE,  <<128, 0>>,  <<128, 256>>, <<384, 0>>),
                    Tri(FALSE, <<160, 32>>, <<224, 32>>,  <<160, 96>>) >>)
          [] ch = "b" -> OkGlyph(2, 1, -32, 130,
                 << Tri(FALSE, <<0, 0>>, <<64, 0>>, <<0, 64>>) >>)
          [] ch = "c" -> OkGlyph(0, -1, 0, 10,
                 << Tri(TRUE,  <<0, 0>>, <<0, 64>>, <<64, 0>>) >>)
          [] ch = "d" -> BadGlyph(4, TRUE, FALSE, TRUE)
          [] OTHER    -> OkGlyph(5, 0, 0, 64, <<>>)
    ELSE BadGlyph(0, FALSE, TRUE, TRUE)

(* FT_HAS_KERNING(face) *)
HasKerning(f) == f = "kerned"

(* FT_Get_Kerning(face, left, right, FT_KERNING_DEFAULT).x, in 26.6 units *)
Kerning(f, left, right) ==
    IF ~HasKerning(f) THEN 0
    ELSE CASE left = 1 /\ right = 2 -> -70
           [] left = 2 /\ right = 1 -> 130
           [] left = 1 /\ right = 1 -> -30
           [] left = 5 /\ right = 1 -> -64
           [] OTHER -> 0

(* ------------------------- FreeType handles --------------------------- *)
(* ft is the library's side of the handles: the live library handles, the  *)
(* live face handles, each as <<face, library>>, the next fresh handle,    *)
(* the highest number live at once, and whether a handle that is not live  *)
(* (never acquired, or released before) was ever released.                 *)
FtInit == [libs |-> {}, faces |-> {}, next |-> 1,
           peak_libs |-> 0, peak_faces |-> 0, bad_release |-> FALSE]

Max(a, b) == IF a >= b THEN a ELSE b

LiveFaces(f) == {fl[1] : fl \in f.faces}

(* FT_Done_Face: a null handle is rejected, no effect *)
FT_Done_Face(f, h) ==
    IF h = NULL THEN f
    ELSE IF h \in LiveFaces(f)
         THEN [f EXCEPT !.faces = {fl \in @ : fl[1] # h}]
         ELSE [f EXCEPT !.bad_release = TRUE]

(* FT_Done_FreeType: a null handle is rejected; the faces still open in    *)
(* the library go with it                                                  *)
FT_Done_FreeType(f, h) ==
    IF h = NULL THEN f
    ELSE IF h \in f.libs
         THEN [f EXCEPT !.libs = @ \ {h}, !.faces = {fl \in @ : fl[2] # h}]
         ELSE [f EXCEPT !.bad_release = TRUE]

FT_Init_FreeType(f) ==
    [f EXCEPT !.libs = @ \cup {f.next}, !.next = @ + 1,
              !.peak_libs = Max(@, Cardinality(f.libs) + 1)]

FT_New_Face(f, lib) ==
    [f EXCEPT !.faces = @ \cup {<<f.next, lib>>}, !.next = @ + 1,
              !.peak_faces = Max(@, Cardinality(f.faces) + 1)]

(* The fields of the object that the font operations read and write. *)
FontState == [font_library_ |-> font_library_, font_face_ |-> font_face_,
              ready_ |-> ready_, face_file |-> face_file, ft |-> ft]

cleanup_forget(s) ==
    [s EXCEPT !.font_face_ = NULL, !.font_library_ = NULL, !.face_file = "none"]

cleanup(s) ==
    [s EXCEPT !.ft = FT_Done_FreeType(FT_Done_Face(s.ft, s.font_face_), s.font_library_),
              !.font_face_ = NULL, !.font_library_ = NULL, !.face_file = "none"]

set_font(s, font_file, outcome) ==
    LET s0 == cleanup(s) IN
    IF outcome = "fail_init" THEN [s0 EXCEPT !.ready_ = FALSE]
    ELSE
        LET s1 == [s0 EXCEPT !.font_library_ = s0.ft.next,
                             !.ft = FT_Init_FreeType(s0.ft)] IN
        IF outcome = "fail_face" THEN [s1 EXCEPT !.ready_ = FALSE]
        ELSE
            LET s2 == [s1 EXCEPT !.font_face_ = s1.ft.next,
                                 !.face_file = font_file,
                                 !.ft = FT_New_Face(s1.ft, s1.font_library_)] IN
            IF outcome = "fail_size" THEN [s2 EXCEPT !.ready_ = FALSE]
            ELSE [s2 EXCEPT !.ready_ = TRUE]

(* ----------------------- per-character contours ----------------------- *)
(* The pen: x and y are the reference parameters, the rest are the fields. *)
Pen(x, y, prev, cur, rsb) ==
    [x |-> x, y |-> y, prev_char_index_ |-> prev, cur_char_index_ |-> cur,
     prev_rsb_delta_ |-> rsb]

(* the three early returns: the contour list stays empty *)
glyph_failed_advances(ch, pen) ==
    [cc |-> [character |-> ch, contours |-> <<>>],
     pen |-> [pen EXCEPT !.prev_char_index_ = pen.cur_char_index_]]

glyph_failed(ch, pen) ==
    [cc |-> [character |-> ch, contours |-> <<>>], pen |-> pen]

kerning_adjust(f, pen) ==
    IF HasKerning(f) /\ pen.prev_char_index_ # 0
    THEN TruncDiv(Kerning(f, pen.prev_char_index_, pen.cur_char_index_), SCALE_TO_F26DOT6)
    ELSE 0

italic_correction_strict(delta) ==
    IF delta > 32 THEN -1 ELSE IF delta < -32 THEN 1 ELSE 0

italic_correction_double(delta) ==
    IF delta >= 32 THEN -2 ELSE IF delta < -32 THEN 1 ELSE 0

italic_correction(delta) ==
    IF delta >= 32 THEN -1 ELSE IF delta < -32 THEN 1 ELSE 0

place_contours(g, x, y) ==
    [c \in 1..Len(g.contours) |->
        [clockwise |-> g.contours[c].clockwise,
         points |-> [p \in 1..Len(g.contours[c].points) |->
                        << g.contours[c].points[p][1] + SCALE_TO_F26DOT6 * x,
                           g.contours[c].points[p][2] + SCALE_TO_F26DOT6 * y >>]]]

generate_contours_char(f, ch, pen) ==
    LET g  == Glyph(f, ch)
        p0 == [pen EXCEPT !.cur_char_index_ = g.index]
    IN  IF ~g.load_ok \/ ~g.get_ok \/ ~g.outline THEN glyph_failed(ch, p0)
        ELSE
            LET x1 == p0.x + kerning_adjust(f, p0)
                x2 == x1 + italic_correction(p0.prev_rsb_delta_ - g.lsb_delta)
            IN  [cc  |-> [character |-> ch, contours |-> place_contours(g, x2, p0.y)],
                 pen |-> [p0 EXCEPT !.x = x2 + TruncDiv(g.advance, SCALE_TO_F26DOT6),
                                    !.prev_char_index_ = g.index,
                                    !.prev_rsb_delta_ = g.rsb_delta]]

(* ------------------------ string-level contours ----------------------- *)
(* acc: the pen, the output sequence, and the pen after each character     *)
loop_step_drop_failed(f, acc, ch) ==
    LET r == generate_contours_char(f, ch, acc.pen) IN
    [pen |-> r.pen,
     contours |-> IF r.cc.contours = <<>> THEN acc.contours
                  ELSE Append(acc.contours, r.cc),
     trace |-> Append(acc.trace, r.pen)]

loop_step(f, acc, ch) ==
    LET r == generate_contours_char(f, ch, acc.pen) IN
    [pen |-> r.pen, contours |-> Append(acc.contours, r.cc),
     trace |-> Append(acc.trace, r.pen)]

RECURSIVE contours_loop(_, _, _, _)
contours_loop(f, acc, text, i) ==
    IF i > Len(text) THEN acc
    ELSE contours_loop(f, loop_step(f, acc, text[i]), text, i + 1)

reset_pen_keep(x, y, prev, cur, rsb) == Pen(x, y, prev, cur, rsb)

reset_pen(x, y, prev, cur, rsb) == Pen(x, y, 0, 0, 0)

(* o: [ready_, face_file, prev_char_index_, cur_char_index_, prev_rsb_delta_] *)
(* a call that returns at its test of ready_: nothing is read or written *)
Untouched(o, x, y, contours) ==
    [pen |-> Pen(x, y, o.prev_char_index_, o.cur_char_index_, o.prev_rsb_delta_),
     contours |-> contours, trace |-> <<>>]

generate_contours_unguarded(o, text, x, y, contours) ==
    LET pen0 == reset_pen(x, y, o.prev_char_index_, o.cur_char_index_, o.prev_rsb_delta_)
    IN  contours_loop(o.face_file, [pen |-> pen0, contours |-> contours, trace |-> <<pen0>>],
                      text, 1)

generate_contours(o, text, x, y, contours) ==
    IF ~o.ready_ THEN Untouched(o, x, y, contours)
    ELSE LET pen0 == reset_pen(x, y, o.prev_char_index_, o.cur_char_index_, o.prev_rsb_delta_)
         IN  contours_loop(o.face_file,
                           [pen |-> pen0, contours |-> contours, trace |-> <<pen0>>],
                           text, 1)

(* --------------------------- the mesh (sink) -------------------------- *)
(* vertices: positions <<x, y, z>>; faces: triples of vertex numbers.      *)
EmptyMesh == [vertices |-> <<>>, faces |-> <<>>]

OneTriangleMesh == [vertices |-> << <<0, 0, 0>>, <<64, 0, 0>>, <<0, 64, 0>> >>,
                    faces |-> << <<1, 2, 3>> >>]

RECURSIVE Flatten(_)
Flatten(ss) == IF ss = <<>> THEN <<>> ELSE Head(ss) \o Flatten(Tail(ss))

(* mesh->add_triangle(mesh->add_vertex(pa), mesh->add_vertex(pb),          *)
(* mesh->add_vertex(pc)) on a mesh of n vertices: the vertices added, in   *)
(* the order they are numbered, and the face.  The order in which the      *)
(* three arguments are evaluated is the compiler's choice, so the numbers  *)
(* are handed out left to right or right to left.                          *)
add_triangle(n, tri, order) ==
    IF order = "ltr"
    THEN [vertices |-> <<tri[1], tri[2], tri[3]>>, face |-> <<n + 1, n + 2, n + 3>>]
    ELSE [vertices |-> <<tri[3], tri[2], tri[1]>>, face |-> <<n + 3, n + 2, n + 1>>]

(* the triangles tris, added one after the other *)
add_triangles(mesh, tris, order) ==
    LET n0 == Len(mesh.vertices) IN
    [vertices |-> mesh.vertices \o
        [j \in 1..(3 * Len(tris)) |->
            add_triangle(n0 + 3 * ((j - 1) \div 3), tris[((j - 1) \div 3) + 1],
                         order).vertices[((j - 1) % 3) + 1]],
     faces |-> mesh.faces \o
        [k \in 1..Len(tris) |-> add_triangle(n0 + 3 * (k - 1), tris[k], order).face]]

Lift(p, z) == <<p[1], p[2], z>>

side_wall_one_triangle(contour, p, extrude) ==
    LET n == Len(contour.points)
        a == Lift(contour.points[p], 0)
        b == Lift(contour.points[(p % n) + 1], 0)
        c == Lift(contour.points[p], SCALE_TO_F26DOT6 * extrude)
    IN  << <<c, b, a>> >>

(* the two triangles of the wall over the edge from point p to the next *)
side_wall(contour, p, extrude) ==
    LET n == Len(contour.points)
        a == Lift(contour.points[p], 0)
        b == Lift(contour.points[(p % n) + 1], 0)
        c == Lift(contour.points[p], SCALE_TO_F26DOT6 * extrude)
        d == Lift(contour.points[(p % n) + 1], SCALE_TO_F26DOT6 * extrude)
    IN  << <<c, b, a>>, <<c, d, b>> >>

(* the walls of a contour, of a character, of the text, in the order of    *)
(* the three loops                                                         *)
side_walls(contour, extrude) ==
    Flatten([p \in 1..Len(contour.points) |-> side_wall(contour, p, extrude)])

character_walls(ch, extrude) ==
    Flatten([index \in 1..Len(ch) |-> side_walls(ch[index], extrude)])

text_walls(characters, extrude) ==
    Flatten([k \in 1..Len(characters) |->
                character_walls(characters[k].contours, extrude)])

(* ------------------------ geometry (collaborator) --------------------- *)
(* geom::point_in_polygon: parity of the polygon's edges that cross the    *)
(* horizontal ray from p to the right                                      *)
EdgeCrosses(p, u0, u1) ==
    /\ \/ (u0[2] <= p[2] /\ p[2] < u1[2])
       \/ (u1[2] <= p[2] /\ p[2] < u0[2])
    /\ IF u1[2] - u0[2] > 0
       THEN (p[2] - u0[2]) * (u1[1] - u0[1]) > (p[1] - u0[1]) * (u1[2] - u0[2])
       ELSE (p[2] - u0[2]) * (u1[1] - u0[1]) < (p[1] - u0[1]) * (u1[2] - u0[2])

point_in_polygon(p, polygon) ==
    LET n == Len(polygon) IN
    Cardinality({i \in 1..n :
        EdgeCrosses(p, polygon[i], polygon[IF i = 1 THEN n ELSE i - 1])}) % 2 = 1

(* ------------------------ the tessellator (collaborator) -------------- *)
(* calls: the calls received, in order.  vertices and triangles: the       *)
(* result buffers.  A polygon of n vertices in all, with h holes,          *)
(* triangulates into n + 2h - 2 triangles; which vertices each triangle    *)
(* joins is left schematic.                                                *)
Call(f, arg) == [f |-> f, arg |-> arg]

NewTessellator == [calls |-> <<>>, vertices |-> <<>>, triangles |-> <<>>,
                   poly_start |-> 0, n_contours |-> 0]

begin_polygon(t) ==
    [t EXCEPT !.calls = Append(@, Call("begin_polygon", <<0, 0, -1>>)),
              !.poly_start = Len(t.vertices), !.n_contours = 0]

set_winding_rule(t, rule) ==
    [t EXCEPT !.calls = Append(@, Call("set_winding_rule", rule))]

begin_contour(t) == [t EXCEPT !.calls = Append(@, Call("begin_contour", <<>>))]

tess_add_vertex(t, p) ==
    [t EXCEPT !.calls = Append(@, Call("add_vertex", p)),
              !.vertices = Append(@, p)]

end_contour(t) ==
    [t EXCEPT !.calls = Append(@, Call("end_contour", <<>>)),
              !.n_contours = @ + 1]

end_polygon(t) ==
    LET n == Len(t.vertices) - t.poly_start
        k == IF n >= 3 THEN n + 2 * (t.n_contours - 1) - 2 ELSE 0
    IN  [t EXCEPT !.calls = Append(@, Call("end_polygon", <<>>)),
                  !.triangles = @ \o [i \in 1..k |->
                        << t.poly_start + 1 + ((i - 1) % n),
                           t.poly_start + 1 + (i % n),
                           t.poly_start + 1 + ((i + 1) % n) >>]]

(* ------------------------------ generate ------------------------------ *)
is_inside(contour_a, contour_b) ==
    \A i \in 1..Len(contour_a.points) :
        point_in_polygon(contour_a.points[i], contour_b.points)

RECURSIVE add_vertices(_, _, _)
add_vertices(t, contour, p) ==
    IF p > Len(contour.points) THEN t
    ELSE add_vertices(tess_add_vertex(t, Lift(contour.points[p], 0)), contour, p + 1)

submit_contour(t, contour, rule) ==
    end_contour(add_vertices(begin_contour(set_winding_rule(t, rule)), contour, 1))

is_hole_any_position(ch, index, inner_index) ==
    /\ inner_index # index
    /\ ch[inner_index].clockwise # ch[index].clockwise

is_hole(ch, index, inner_index) ==
    /\ inner_index # index
    /\ ch[inner_index].clockwise # ch[index].clockwise
    /\ is_inside(ch[inner_index], ch[index])

RECURSIVE holes_loop(_, _, _, _)
holes_loop(t, ch, index, inner_index) ==
    IF inner_index > Len(ch) THEN t
    ELSE holes_loop(IF is_hole(ch, index, inner_index)
                    THEN submit_contour(t, ch[inner_index], "ODD") ELSE t,
                    ch, index, inner_index + 1)

cap_polygon(t, ch, index) ==
    IF ch[index].clockwise
    THEN end_polygon(holes_loop(submit_contour(begin_polygon(t), ch[index], "NONZERO"),
                                ch, index, 1))
    ELSE t

(* the iterations of a loop run one after the other: t1 is the tessellator *)
(* after this iteration, r after the remaining ones                        *)
RECURSIVE contour_loop(_, _, _)
contour_loop(t, ch, index) ==
    IF index > Len(ch) THEN t
    ELSE CHOOSE r \in { contour_loop(t1, ch, index + 1) :
                            t1 \in {cap_polygon(t, ch, index)} } : TRUE

RECURSIVE characters_loop(_, _, _)
characters_loop(t, characters, k) ==
    IF k > Len(characters) THEN t
    ELSE CHOOSE r \in { characters_loop(t1, characters, k + 1) :
                            t1 \in {contour_loop(t, characters[k].contours, 1)} } : TRUE

(* the bottom and the top triangle of the i-th triangle of the tessellator *)
cap_pair(t, i, extrude) ==
    LET va == t.vertices[t.triangles[i][1]]
        vb == t.vertices[t.triangles[i][2]]
        vc == t.vertices[t.triangles[i][3]]
        e  == SCALE_TO_F26DOT6 * extrude
    IN  << <<va, vb, vc>>,
           << <<vc[1], vc[2], vc[3] + e>>,
              <<vb[1], vb[2], vb[3] + e>>,
              <<va[1], va[2], va[3] + e>> >> >>

caps(t, extrude) ==
    [j \in 1..(2 * Len(t.triangles)) |->
        cap_pair(t, (j + 1) \div 2, extrude)[IF j % 2 = 1 THEN 1 ELSE 2]]

(* the result of a call: what it returned, the mesh and the fields after   *)
(* it, and what it did on the way                                          *)
Result(ret, mesh, gc, t) ==
    [ret |-> ret, mesh |-> mesh, pen |-> gc.pen, contours |-> gc.contours,
     trace |-> gc.trace, calls |-> t.calls, num |-> Len(t.triangles)]

(* The mesh and the tessellator do not touch each other: the walls of all  *)
(* contours go to the mesh in loop order while the tessellator collects    *)
(* the polygons, and the caps follow.                                      *)
generate(o, mesh, text, x, y, extrude, order) ==
    IF ~o.ready_ THEN Result("false", mesh, Untouched(o, x, y, <<>>), NewTessellator)
    ELSE
        LET gc == generate_contours(o, text, x, y, <<>>) IN
        IF gc.contours = <<>> THEN Result("false", mesh, gc, NewTessellator)
        ELSE LET t == characters_loop(NewTessellator, gc.contours, 1)
                 walled == add_triangles(mesh, text_walls(gc.contours, extrude), order)
             IN  Result("true", add_triangles(walled, caps(t, extrude), order), gc, t)

(* the result r, returned as ret with the mesh given *)
Returned(r, ret, mesh) ==
    [ret |-> ret, mesh |-> mesh, pen |-> r.pen, contours |-> r.contours,
     trace |-> r.trace, calls |-> r.calls, num |-> r.num]

(* the mesh is allocated after the test of ready_, and deleted on failure *)
generate_new(o, text, x, y, extrude, order) ==
    IF ~o.ready_
    THEN Result("null", EmptyMesh, Untouched(o, x, y, <<>>), NewTessellator)
    ELSE LET r == generate(o, EmptyMesh, text, x, y, extrude, order) IN
         IF r.ret = "true" THEN Returned(r, "mesh", r.mesh)
         ELSE Returned(r, "null", EmptyMesh)

(* ------------------------------ the calls ----------------------------- *)
RECURSIVE TextsUpTo(_)
TextsUpTo(n) ==
    IF n = 0 THEN {<<>>}
    ELSE {<<>>} \cup {<<c>> \o t : c \in Chars, t \in TextsUpTo(n - 1)}

Texts == TextsUpTo(MaxLen)
ShortTexts == {t \in Texts : Len(t) <= 1}
XValues == {0, 1}
YValues == {0, 2}
ExtrudeValues == {0, 1}
Meshes == {EmptyMesh, OneTriangleMesh}
OutputSeqs == {<<>>, << [character |-> "a", contours |-> <<>>] >>}
Orders == {"ltr", "rtl"}

Object == [ready_ |-> ready_, face_file |-> face_file,
           prev_char_index_ |-> prev_char_index_,
           cur_char_index_ |-> cur_char_index_,
           prev_rsb_delta_ |-> prev_rsb_delta_]

(* last: the call that has just returned: its arguments, the fields it     *)
(* found, and its Result                                                   *)
Last(op, text, x, y, extrude, contours0, mesh0, r) ==
    [op |-> op, text |-> text, x |-> x, y |-> y, extrude |-> extrude,
     contours0 |-> contours0, mesh0 |-> mesh0, pre |-> Object,
     ret |-> r.ret, mesh |-> r.mesh, contours |-> r.contours,
     trace |-> r.trace, calls |-> r.calls, num |-> r.num]

NoResult == [ret |-> "void", mesh |-> EmptyMesh, contours |-> <<>>,
             trace |-> <<>>, calls |-> <<>>, num |-> 0]

NoObject == [ready_ |-> FALSE, face_file |-> "none", prev_char_index_ |-> 0,
             cur_char_index_ |-> 0, prev_rsb_delta_ |-> 0]

FontLast(op, outcome, pre) ==
    [op |-> op, text |-> <<>>, x |-> 0, y |-> 0, extrude |-> 0,
     contours0 |-> <<>>, mesh0 |-> EmptyMesh, pre |-> pre,
     ret |-> outcome, mesh |-> EmptyMesh, contours |-> <<>>,
     trace |-> <<>>, calls |-> <<>>, num |-> 0]

NoLast == FontLast("none", "void", NoObject)

FontAssign(s) ==
    /\ font_library_' = s.font_library_
    /\ font_face_' = s.font_face_
    /\ ready_' = s.ready_
    /\ face_file' = s.face_file
    /\ ft' = s.ft

PenAssign(pen) ==
    /\ prev_char_index_' = pen.prev_char_index_
    /\ cur_char_index_' = pen.cur_char_index_
    /\ prev_rsb_delta_' = pen.prev_rsb_delta_

(* TextMesher::TextMesher: the fields are nulled, then set_font runs *)
Init ==
    \E font_file \in FontFiles, outcome \in Outcomes :
        LET s == set_font([font_library_ |-> NULL, font_face_ |-> NULL,
                           ready_ |-> FALSE, face_file |-> "none", ft |-> FtInit],
                          font_file, outcome)
        IN  /\ font_library_ = s.font_library_
            /\ font_face_ = s.font_face_
            /\ ready_ = s.ready_
            /\ face_file = s.face_file
            /\ ft = s.ft
            /\ prev_char_index_ = 0
            /\ cur_char_index_ = 0
            /\ prev_rsb_delta_ = 0
            /\ alive = TRUE
            /\ n_set_font = 0
            /\ phase = "returned"
            /\ last = FontLast("construct", outcome, NoObject)

SetFont ==
    /\ alive /\ phase = "idle"
    /\ n_set_font < MaxSetFont
    /\ \E font_file \in FontFiles, outcome \in Outcomes :
        /\ FontAssign(set_font(FontState, font_file, outcome))
        /\ last' = FontLast("set_font", outcome, Object)
    /\ n_set_font' = n_set_font + 1
    /\ phase' = "returned"
    /\ UNCHANGED <<prev_char_index_, cur_char_index_, prev_rsb_delta_, alive>>

GenerateContours(T) ==
    /\ alive /\ phase = "idle"
    /\ \E text \in T, x \in XValues, y \in YValues, contours0 \in OutputSeqs :
        \E gc \in {generate_contours(Object, text, x, y, contours0)} :
        /\ PenAssign(gc.pen)
        /\ last' = Last("generate_contours", text, x, y, 0, contours0, EmptyMesh,
                        [NoResult EXCEPT !.contours = gc.contours, !.trace = gc.trace])
    /\ phase' = "returned"
    /\ UNCHANGED <<font_library_, font_face_, ready_, face_file, ft, alive, n_set_font>>

Generate(T) ==
    /\ alive /\ phase = "idle"
    /\ \E text \in T, x \in XValues, extrude \in ExtrudeValues,
          mesh0 \in Meshes, order \in Orders :
        \E r \in {generate(Object, mesh0, text, x, 0, extrude, order)} :
        /\ PenAssign(r.pen)
        /\ last' = Last("generate", text, x, 0, extrude, <<>>, mesh0, r)
    /\ phase' = "returned"
    /\ UNCHANGED <<font_library_, font_face_, ready_, face_file, ft, alive, n_set_font>>

GenerateNew(T) ==
    /\ alive /\ phase = "idle"
    /\ \E text \in T, y \in YValues, extrude \in ExtrudeValues, order \in Orders :
        \E r \in {generate_new(Object, text, 0, y, extrude, order)} :
        /\ PenAssign(r.pen)
        /\ last' = Last("generate_new", text, 0, y, extrude, <<>>, EmptyMesh, r)
    /\ phase' = "returned"
    /\ UNCHANGED <<font_library_, font_face_, ready_, face_file, ft, alive, n_set_font>>

(* TextMesher::~TextMesher *)
Destroy ==
    /\ alive /\ phase = "idle"
    /\ FontAssign(cleanup(FontState))
    /\ alive' = FALSE
    /\ last' = FontLast("destroy", "void", Object)
    /\ phase' = "returned"
    /\ UNCHANGED <<prev_char_index_, cur_char_index_, prev_rsb_delta_, n_set_font>>

(* the caller takes the result of the call; the object is ready for the next *)
Return ==
    /\ alive /\ phase = "returned"
    /\ phase' = "idle"
    /\ last' = NoLast
    /\ UNCHANGED <<font_library_, font_face_, ready_, face_file, ft, alive,
                   n_set_font, prev_char_index_, cur_char_index_, prev_rsb_delta_>>

(* Spec: one font for the life of the object, every text up to MaxLen.     *)
Next ==
    \/ GenerateContours(Texts)
    \/ Generate(Texts)
    \/ GenerateNew(Texts)
    \/ Return

Spec == Init /\ [][Next]_vars

(* SpecFont: the font is set again and again and the object is destroyed;  *)
(* the texts are the short ones.                                           *)
NextFont ==
    \/ SetFont
    \/ Destroy
    \/ GenerateContours(ShortTexts)
    \/ Generate(ShortTexts)
    \/ GenerateNew(ShortTexts)
    \/ Return

SpecFont == Init /\ [][NextFont]_vars

TypeOK ==
    /\ ready_ \in BOOLEAN
    /\ alive \in BOOLEAN
    /\ phase \in {"idle", "returned"}
    /\ face_file \in FontFiles \cup {"none"}
    /\ n_set_font \in 0..MaxSetFont

(* ============================== claims ================================ *)
Returned_(op) == phase = "returned" /\ last.op = op

WasReady == last.pre.ready_

Face == last.pre.face_file

GlyphFails(f, ch) ==
    ~Glyph(f, ch).load_ok \/ ~Glyph(f, ch).get_ok \/ ~Glyph(f, ch).outline

(* the edges of all contours of all characters, holes included *)
Edges(characters) ==
    UNION { UNION { { <<k, c, p>> : p \in 1..Len(characters[k].contours[c].points) }
                    : c \in 1..Len(characters[k].contours) }
            : k \in 1..Len(characters) }

(* C1: while the mesher is not ready, generate(mesh, ...) returns false     *)
(* and adds nothing to the mesh and calls no tessellator, the allocating    *)
(* generate returns no mesh, generate_contours appends nothing; no generate *)
(* call changes ready_, and only a set_font that succeeds makes it ready.   *)
C1_NotReadyIsNoOp ==
    /\ (Returned_("generate") /\ ~WasReady) =>
            /\ last.ret = "false"
            /\ last.mesh = last.mesh0
            /\ last.calls = <<>>
            /\ ~ready_
    /\ (Returned_("generate_new") /\ ~WasReady) =>
            /\ last.ret = "null"
            /\ last.mesh = EmptyMesh
            /\ ~ready_
    /\ (Returned_("generate_contours") /\ ~WasReady) =>
            /\ last.contours = last.contours0
            /\ ~ready_
    /\ (phase = "returned" /\ last.op \notin {"construct", "none"}
            /\ ~WasReady /\ ready_) =>
            (last.op = "set_font" /\ last.ret = "ok")

C1_Witness ==
    /\ Returned_("generate") /\ ~WasReady
    /\ Len(last.text) = 1
    /\ last.mesh0 = OneTriangleMesh
    /\ n_set_font >= 1
    /\ font_face_ # NULL

(* C2: in the ready state, generate_contours called with an empty output    *)
(* sequence yields one CharContour per character of the text, in order,     *)
(* the i-th carrying the i-th character; a failed glyph has an entry with   *)
(* zero contours.                                                           *)
C2_OneEntryPerCharacter ==
    (Returned_("generate_contours") /\ WasReady /\ last.contours0 = <<>>) =>
        /\ Len(last.contours) = Len(last.text)
        /\ \A i \in 1..Len(last.text) :
            /\ last.contours[i].character = last.text[i]
            /\ GlyphFails(Face, last.text[i]) => last.contours[i].contours = <<>>

C2_Witness ==
    /\ Returned_("generate_contours") /\ WasReady /\ last.contours0 = <<>>
    /\ Len(last.text) = 2
    /\ last.contours[1].contours # <<>>
    /\ GlyphFails(Face, last.text[2])

(* C3: in the ready state, when no contour is produced for the whole text   *)
(* (empty text, or every character without contours), generate returns     *)
(* failure and the allocating generate returns no mesh.                     *)
C3_NoContourIsFailure ==
    /\ (Returned_("generate") /\ WasReady
            /\ \A i \in 1..Len(last.contours) : last.contours[i].contours = <<>>)
       => last.ret = "false"
    /\ (Returned_("generate_new") /\ WasReady
            /\ \A i \in 1..Len(last.contours) : last.contours[i].contours = <<>>)
       => last.ret = "null"

(* C4: a successful generate(mesh, ...) appends exactly 2*E + 2*T           *)
(* triangles, E the edges of all contours and T the triangles of the        *)
(* tessellator; each uses three vertices added for it alone, so             *)
(* 3*(2*E + 2*T) vertices are appended; what the mesh held stays as it was. *)
C4_TriangleCount ==
    (Returned_("generate") /\ last.ret = "true") =>
        LET nf0 == Len(last.mesh0.faces)
            nv0 == Len(last.mesh0.vertices)
            added == 2 * Cardinality(Edges(last.contours)) + 2 * last.num
        IN  /\ Len(last.mesh.faces) = nf0 + added
            /\ Len(last.mesh.vertices) = nv0 + 3 * added
            /\ SubSeq(last.mesh.faces, 1, nf0) = last.mesh0.faces
            /\ SubSeq(last.mesh.vertices, 1, nv0) = last.mesh0.vertices
            /\ \A k \in 1..added :
                 { last.mesh.faces[nf0 + k][j] : j \in 1..3 }
                    = { nv0 + 3 * (k - 1) + j : j \in 1..3 }

C4_Witness ==
    /\ Returned_("generate") /\ last.ret = "true"
    /\ last.mesh0 = OneTriangleMesh
    /\ last.num > 0
    /\ Len(last.text) = 2
    /\ \E i \in 1..2 : Len(last.contours[i].contours) >= 2

(* C5: over construction, any set_font calls and destruction, at most one   *)
(* library and one face handle is live at any time (so the old one is       *)
(* released before its replacement is acquired), nothing is released that   *)
(* is not live (no handle is released twice), the live handles are the ones *)
(* the object points to (none is lost), and none is live after destruction. *)
C5_HandlesReleasedOnce ==
    /\ ft.peak_libs <= 1
    /\ ft.peak_faces <= 1
    /\ ~ft.bad_release
    /\ ft.libs = {font_library_} \ {NULL}
    /\ LiveFaces(ft) = {font_face_} \ {NULL}
    /\ \A fl \in ft.faces : fl[2] = font_library_
    /\ ~alive => (ft.libs = {} /\ ft.faces = {})

C5_Witness ==
    /\ ~alive
    /\ n_set_font = MaxSetFont
    /\ ft.next >= 5
    /\ ft.libs = {} /\ ft.faces = {}

NonDecreasing(trace) ==
    \A i \in 1..(Len(trace) - 1) : trace[i + 1].x >= trace[i].x

(* C6 as claimed: without kerning, every glyph loading with a positive      *)
(* advance, the pen x after each character never decreases.                 *)
C6_MonotoneForPositiveAdvance ==
    (/\ Returned_("generate_contours") /\ WasReady /\ ~HasKerning(Face)
     /\ \A i \in 1..Len(last.text) :
            ~GlyphFails(Face, last.text[i]) /\ Glyph(Face, last.text[i]).advance > 0)
    => NonDecreasing(last.trace)

(* C6 amended: without kerning, every glyph loading with an advance of at   *)
(* least SCALE_TO_F26DOT6 (one whole unit), the pen x after each character  *)
(* never decreases, whatever the lsb and rsb deltas.                        *)
C6_MonotoneForWholeUnitAdvance ==
    (/\ Returned_("generate_contours") /\ WasReady /\ ~HasKerning(Face)
     /\ \A i \in 1..Len(last.text) :
            /\ ~GlyphFails(Face, last.text[i])
            /\ Glyph(Face, last.text[i]).advance >= SCALE_TO_F26DOT6)
    => NonDecreasing(last.trace)

C6_Witness ==
    /\ Returned_("generate_contours") /\ WasReady /\ ~HasKerning(Face)
    /\ last.text = <<"a", "a">>
    /\ last.trace[3].x = last.trace[2].x

(* C7: a character whose glyph fails gets zero contours and leaves the pen  *)
(* (x, y, previous glyph index, previous rsb delta) as it was, and the      *)
(* characters after it are still processed.                                 *)
C7_FailedGlyphLeavesPen ==
    ((Returned_("generate_contours") \/ Returned_("generate")) /\ WasReady) =>
        /\ Len(last.trace) = Len(last.text) + 1
        /\ Len(last.contours) = Len(last.contours0) + Len(last.text)
        /\ \A i \in 1..Len(last.text) :
            GlyphFails(Face, last.text[i]) =>
                /\ last.contours[Len(last.contours0) + i].contours = <<>>
                /\ last.trace[i + 1].x = last.trace[i].x
                /\ last.trace[i + 1].y = last.trace[i].y
                /\ last.trace[i + 1].prev_char_index_ = last.trace[i].prev_char_index_
                /\ last.trace[i + 1].prev_rsb_delta_ = last.trace[i].prev_rsb_delta_

C7_Witness ==
    /\ Returned_("generate_contours") /\ WasReady
    /\ Len(last.text) = 2
    /\ ~GlyphFails(Face, last.text[1])
    /\ GlyphFails(Face, last.text[2])
    /\ last.trace[2].prev_char_index_ # 0
    /\ last.trace[3].prev_char_index_ = last.trace[2].prev_char_index_

(* C8: the contours generate_contours gives for (text, x, y) on a ready     *)
(* font do not depend on the calls made before: whatever previous glyph     *)
(* index and rsb delta the object holds, the result is the one computed     *)
(* with both zero, and the first character gets no kerning and no           *)
(* correction from an earlier call.                                         *)
C8_ResultIndependentOfHistory ==
    (Returned_("generate_contours") /\ WasReady) =>
        LET fresh == contours_loop(Face,
                        [pen |-> Pen(last.x, last.y, 0, 0, 0),
                         contours |-> last.contours0,
                         trace |-> << Pen(last.x, last.y, 0, 0, 0) >>],
                        last.text, 1)
        IN  /\ last.contours = fresh.contours
            /\ last.trace[1].prev_char_index_ = 0
            /\ last.trace[1].prev_rsb_delta_ = 0

C8_Witness ==
    /\ Returned_("generate_contours") /\ WasReady
    /\ Face = "kerned"
    /\ last.pre.prev_char_index_ = 1
    /\ last.pre.prev_rsb_delta_ = 32
    /\ Len(last.text) = 2
    /\ last.text[1] = "b"

(* the pen step of the i-th character with the correction corr *)
PenStep(i, corr) ==
    LET g == Glyph(Face, last.text[i])
        before == [last.trace[i] EXCEPT !.cur_char_index_ = g.index]
    IN  last.trace[i + 1].x =
            before.x + kerning_adjust(Face, before) + corr
                     + TruncDiv(g.advance, SCALE_TO_F26DOT6)

Delta(i) ==
    last.trace[i].prev_rsb_delta_ - Glyph(Face, last.text[i]).lsb_delta

(* C9 as claimed: for a loaded glyph the pen x is decremented by one when   *)
(* delta exceeds +32, incremented by one when delta is below -32, and not   *)
(* corrected otherwise, delta = +32 and delta = -32 included.               *)
C9_CorrectionStrictlyAbove32 ==
    ((Returned_("generate_contours") \/ Returned_("generate")) /\ WasReady) =>
        \A i \in 1..Len(last.text) :
            ~GlyphFails(Face, last.text[i]) =>
                PenStep(i, IF Delta(i) > 32 THEN -1
                           ELSE IF Delta(i) < -32 THEN 1 ELSE 0)

(* C9 amended: the pen x is decremented by one when delta is +32 or more,   *)
(* incremented by one when delta is below -32, and not corrected otherwise  *)
(* (delta from -32 to +31).                                                 *)
C9_CorrectionFrom32 ==
    ((Returned_("generate_contours") \/ Returned_("generate")) /\ WasReady) =>
        \A i \in 1..Len(last.text) :
            ~GlyphFails(Face, last.text[i]) =>
                PenStep(i, IF Delta(i) >= 32 THEN -1
                           ELSE IF Delta(i) < -32 THEN 1 ELSE 0)

C9_Witness ==
    /\ Returned_("generate") /\ WasReady
    /\ Len(last.text) = 2
    /\ ~GlyphFails(Face, last.text[2])
    /\ Delta(2) = 32
    /\ last.trace[3].x = last.trace[2].x + kerning_adjust(Face,
            [last.trace[2] EXCEPT !.cur_char_index_ = Glyph(Face, last.text[2]).index])

(* the calls the two-phase protocol asks for *)
ContourCalls(contour, rule) ==
    << Call("set_winding_rule", rule), Call("begin_contour", <<>>) >>
    \o [p \in 1..Len(contour.points) |-> Call("add_vertex", Lift(contour.points[p], 0))]
    \o << Call("end_contour", <<>>) >>

HolesOf(ch, a) ==
    SelectSeq([b \in 1..Len(ch) |-> b],
              LAMBDA b : /\ b # a
                         /\ ch[b].clockwise # ch[a].clockwise
                         /\ \A p \in 1..Len(ch[b].points) :
                                point_in_polygon(ch[b].points[p], ch[a].points))

PolygonCalls(ch, a) ==
    << Call("begin_polygon", <<0, 0, -1>>) >>
    \o ContourCalls(ch[a], "NONZERO")
    \o Flatten([k \in 1..Len(HolesOf(ch, a)) |-> ContourCalls(ch[HolesOf(ch, a)[k]], "ODD")])
    \o << Call("end_polygon", <<>>) >>

ProtocolCalls(characters) ==
    Flatten([k \in 1..Len(characters) |->
        Flatten([a \in 1..Len(characters[k].contours) |->
            IF characters[k].contours[a].clockwise
            THEN PolygonCalls(characters[k].contours, a) ELSE <<>>])])

(* C10: the tessellator receives, for every clockwise contour A in order,   *)
(* one polygon: begin_polygon, A as a contour under NONZERO, then each      *)
(* other contour of the character with the opposite winding and all its     *)
(* points inside A as a contour under ODD, then end_polygon; a contour that *)
(* is not clockwise opens no polygon, and the side walls of every contour,  *)
(* clockwise or not, are emitted.                                           *)
C10_TwoPhaseSubmission ==
    (Returned_("generate") /\ last.ret = "true") =>
        /\ last.calls = ProtocolCalls(last.contours)
        /\ Len(last.mesh.faces) - Len(last.mesh0.faces) - 2 * last.num
               = 2 * Cardinality(Edges(last.contours))

C10_Witness ==
    /\ Returned_("generate") /\ last.ret = "true"
    /\ Len(last.text) = 2
    /\ \E i \in 1..Len(last.calls) :
          last.calls[i].f = "set_winding_rule" /\ last.calls[i].arg = "ODD"
    /\ \E k \in 1..2 : \E a \in 1..Len(last.contours[k].contours) :
          /\ ~last.contours[k].contours[a].clockwise
          /\ \A b \in 1..Len(last.contours[k].contours) :
                ~last.contours[k].contours[b].clockwise
    /\ \E k \in 1..2 : \E a \in 1..Len(last.contours[k].contours) :
          /\ ~last.contours[k].contours[a].clockwise
          /\ \E b \in 1..Len(last.contours[k].contours) :
                /\ last.contours[k].contours[b].clockwise
                /\ HolesOf(last.contours[k].contours, b) = <<>>

====
